---- MODULE Spec2Model ----
(***************************************************************************)
(* Job application tracker: the record store (main.py over models.py), its *)
(* uploaded files, the list query, and the scraper (scraper.py).           *)
(*                                                                         *)
(* Text that is searched or split (names, search text, file names) is a    *)
(* sequence of one-character strings; other text is a TLA+ string.  A      *)
(* Python Optional value is a set of at most one element: None is {} and   *)
(* a present value v is {v}.                                               *)
(***************************************************************************)
EXTENDS Integers, Sequences, FiniteSets, TLC

VARIABLES
    db,         \* the job_applications table: id -> row
    files,      \* the uploads directory: path -> content of the file
    nextId,     \* the next primary key the table hands out
    usedUuids,  \* the uuid4 values drawn so far
    now,        \* what datetime.now() reads
    resp,       \* the response to the latest request (with the request in it)
    issued,     \* history: every id a Create has returned
    updates,    \* the number of Update requests served
    inflight    \* the calls that have started and not returned: handle -> call

vars == <<db, files, nextId, usedUuids, now, resp, issued, updates, inflight>>

-----------------------------------------------------------------------------
(* Bounds of the model *)

\* Create requests in one run (each draws one uuid4)
MaxCreates == 2
\* readings of the clock
MaxClock == 2
\* Create requests in a run of the list query
MaxRows == 2
\* Update requests in one run
MaxUpdates == 1
\* the largest skip and the largest limit a List request carries
MaxSkip == 1
MaxLimit == 2

-----------------------------------------------------------------------------
(* Optional values *)

None == {}
Some(v) == {v}
Val(o) == CHOOSE v \in o : TRUE

\* Python's `x or None` of app.py: an empty text becomes None.
OrNone(o, empty) == IF o = Some(empty) THEN None ELSE o

-----------------------------------------------------------------------------
(* The closed status set (app.py STATUS_OPTIONS) *)

STATUS_OPTIONS == {"Applied", "Rejected", "Assessment", "Interview", "Offer"}

-----------------------------------------------------------------------------
(* File names and paths *)

RECURSIVE LastDot(_, _)
\* the index of the last "." at or before position i of name, 0 when none
LastDot(name, i) ==
    IF i = 0 THEN 0
    ELSE IF name[i] = "." THEN i
    ELSE LastDot(name, i - 1)

RECURSIVE LeadingDots(_, _)
\* the number of "." that name starts with, counted from position i
LeadingDots(name, i) ==
    IF i > Len(name) THEN 0
    ELSE IF name[i] = "." THEN 1 + LeadingDots(name, i + 1)
    ELSE 0

RECURSIVE FirstDot(_, _)
\* the index of the first "." at or after position i of name, 0 when none
FirstDot(name, i) ==
    IF i > Len(name) THEN 0
    ELSE IF name[i] = "." THEN i
    ELSE FirstDot(name, i + 1)

\* an extension taken from the first dot of the name (filename.split(".", 1))
ExtensionFromFirstDot(filename) ==
    LET d == FirstDot(filename, 1)
    IN  IF d = 0 THEN <<>> ELSE SubSeq(filename, d, Len(filename))

\* os.path.splitext(filename)[1] for a name without a directory separator:
\* from the last dot to the end, the dot included; empty when there is no
\* dot or when only leading dots precede it.
get_file_extension(filename) ==
    LET d == LastDot(filename, Len(filename))
    IN  IF d = 0 \/ d <= LeadingDots(filename, 1) THEN <<>>
        ELSE SubSeq(filename, d, Len(filename))

\* f"uploads/resumes/{application_id}_resume{resume_extension}"
ResumePath(application_id, ext) ==
    [dir |-> "uploads/resumes", owner |-> application_id,
     kind |-> "_resume", ext |-> ext]

\* f"uploads/cover_letters/{application_id}_cover_letter{cover_letter_extension}"
CoverLetterPath(application_id, ext) ==
    [dir |-> "uploads/cover_letters", owner |-> application_id,
     kind |-> "_cover_letter", ext |-> ext]

\* open(path, "wb") followed by shutil.copyfileobj: the file holds the blob.
WriteFile(fs, path, blob) ==
    [p \in DOMAIN fs \cup {path} |-> IF p = path THEN blob ELSE fs[p]]

\* os.remove(path)
RemoveFile(fs, path) == [p \in DOMAIN fs \ {path} |-> fs[p]]

\* os.path.exists(path)
Exists(fs, path) == path \in DOMAIN fs

-----------------------------------------------------------------------------
(* The table *)

\* a key allocation that takes the largest stored key plus one
AllocateMaxPlusOne(table, n) ==
    IF DOMAIN table = {} THEN 1
    ELSE 1 + CHOOSE m \in DOMAIN table : \A i \in DOMAIN table : i <= m

\* the primary key of the row a commit inserts: the table's counter, which
\* only grows
AllocateId(table, n) == n

\* db.add(application); db.commit()
InsertRow(table, row) ==
    [i \in DOMAIN table \cup {row.id} |-> IF i = row.id THEN row ELSE table[i]]

\* a delete that is never flushed
DeleteRowLost(table, id) == table

\* db.delete(application); db.commit()
DeleteRow(table, id) == [i \in DOMAIN table \ {id} |-> table[i]]

\* db.query(JobApplication).filter(JobApplication.id == application_id).first()
QueryFirst(table, id) == IF id \in DOMAIN table THEN Some(table[id]) ELSE None

-----------------------------------------------------------------------------
(* Responses *)

NoBody == [none |-> TRUE]

\* fault is the statement that raised while the request was served
Response(op, code, req, body, fault) ==
    [op |-> op, code |-> code, req |-> req, body |-> body, fault |-> fault]

-----------------------------------------------------------------------------
(* POST /applications/ *)

\* The row create_application builds.  is_tailored and my_location are not
\* parameters of the endpoint: the row gets the column defaults.
NewApplication(id, form, resume_path, cover_letter_path, date) ==
    [id                |-> id,
     company_name      |-> form.company_name,
     job_title         |-> form.job_title,
     job_description   |-> form.job_description,
     job_url           |-> None,
     resume_path       |-> resume_path,
     cover_letter_path |-> cover_letter_path,
     referrer_name     |-> form.referrer_name,
     referrer_email    |-> form.referrer_email,
     recruiter_name    |-> form.recruiter_name,
     recruiter_email   |-> form.recruiter_email,
     status            |-> IF form.status = None THEN "Applied" ELSE Val(form.status),
     is_tailored       |-> FALSE,
     my_location       |-> None,
     applied_date      |-> date]

\* a handler that commits the row before it writes the files
RowInsertedFirst(fault) == fault # "commit"

\* whether create_application reaches db.commit() and the commit succeeds:
\* the file writes come first, and any statement that raises ends the handler
RowInserted(fault) == fault = "none"

CreateFaults == {"none", "resume_open", "resume_copy",
                 "cover_letter_open", "cover_letter_copy", "commit"}

\* create_application.  fault names the statement that raises (none: no
\* statement does); every exception is turned into a 500 by the handler.
\* A copy that raises leaves the file it opened, truncated.
create_application(form, resume, cover_letter, uuid, fault) ==
    LET req == [form |-> form, resume |-> resume, cover_letter |-> cover_letter,
                uuid |-> uuid]
        resume_path == ResumePath(uuid, get_file_extension(resume.filename))
        cover_letter_path ==
            IF cover_letter = None THEN None
            ELSE Some(CoverLetterPath(uuid,
                        get_file_extension(Val(cover_letter).filename)))
        fs1 == CASE fault = "resume_open" -> files
                 [] fault = "resume_copy" -> WriteFile(files, resume_path, "truncated")
                 [] OTHER -> WriteFile(files, resume_path, resume.blob)
        resumeFailed == fault \in {"resume_open", "resume_copy"}
        fs2 == CASE resumeFailed \/ cover_letter = None -> fs1
                 [] fault = "cover_letter_open" -> fs1
                 [] fault = "cover_letter_copy" ->
                        WriteFile(fs1, Val(cover_letter_path), "truncated")
                 [] OTHER ->
                        WriteFile(fs1, Val(cover_letter_path), Val(cover_letter).blob)
        id == AllocateId(db, nextId)
        row == NewApplication(id, form, resume_path, cover_letter_path, now)
    IN  /\ uuid \notin usedUuids
        /\ fault \in CreateFaults
        /\ fault \in {"cover_letter_open", "cover_letter_copy"} => cover_letter # None
        /\ usedUuids' = usedUuids \cup {uuid}
        /\ files' = fs2
        /\ IF RowInserted(fault)
           THEN db' = InsertRow(db, row) /\ nextId' = nextId + 1
           ELSE UNCHANGED <<db, nextId>>
        /\ IF fault = "none"
           THEN /\ issued' = Append(issued, id)
                /\ resp' = Response("create", 200, req,
                                    [message |-> "Application created successfully",
                                     id |-> id], fault)
           ELSE /\ resp' = Response("create", 500, req, [detail |-> fault], fault)
                /\ UNCHANGED issued
        /\ UNCHANGED <<now, updates, inflight>>

-----------------------------------------------------------------------------
(* GET /applications/{application_id} *)

get_application(application_id) ==
    LET application == QueryFirst(db, application_id)
    IN  /\ resp' = IF application = None
                   THEN Response("get", 404, application_id,
                                 [detail |-> "Application not found"], "none")
                   ELSE Response("get", 200, application_id, Val(application), "none")
        /\ UNCHANGED <<db, files, nextId, usedUuids, now, issued, updates, inflight>>

-----------------------------------------------------------------------------
(* PUT /applications/{application_id} *)

\* the keys a PUT body may carry (app.py sends all seven)
BodyFields == {"status", "referrer_name", "referrer_email", "recruiter_name",
               "recruiter_email", "is_tailored", "my_location"}

\* the fields class ApplicationUpdate declares
UpdateFields == {"status", "referrer_name", "referrer_email", "recruiter_name",
                 "recruiter_email"}

\* ApplicationUpdate(**body): a body is a function from some of BodyFields to
\* JSON values (None is JSON null).  A declared field that the body lacks
\* takes its default None, a key that is not declared is dropped.
ApplicationUpdate(body) ==
    [f \in UpdateFields |-> IF f \in DOMAIN body THEN body[f] ELSE None]

\* an assignment without the `is not None` test
AssignAlways(old, new) == new

\* one `if update_data.f is not None: application.f = update_data.f`
Assign(old, new) == IF new # None THEN new ELSE old

\* the assignments of update_application (status is not Optional in the row)
ApplyUpdate(application, update_data) ==
    [application EXCEPT
        !.status = IF update_data["status"] # None
                   THEN Val(update_data["status"]) ELSE @,
        !.referrer_name = Assign(@, update_data["referrer_name"]),
        !.referrer_email = Assign(@, update_data["referrer_email"]),
        !.recruiter_name = Assign(@, update_data["recruiter_name"]),
        !.recruiter_email = Assign(@, update_data["recruiter_email"])]

UpdateFaults == {"none", "commit"}

\* update_application.  A commit that raises is rolled back and answered 500.
update_application(application_id, body, fault) ==
    LET req == [id |-> application_id, body |-> body]
        update_data == ApplicationUpdate(body)
        application == QueryFirst(db, application_id)
    IN  /\ updates < MaxUpdates
        /\ fault \in UpdateFaults
        /\ IF application = None
           THEN /\ fault = "none"
                /\ resp' = Response("update", 404, req,
                                    [detail |-> "Application not found"], fault)
                /\ UNCHANGED db
           ELSE IF fault = "commit"
           THEN /\ resp' = Response("update", 500, req, [detail |-> "Database error"],
                                    fault)
                /\ UNCHANGED db
           ELSE LET updated == ApplyUpdate(Val(application), update_data)
                IN  /\ db' = InsertRow(db, updated)
                    /\ resp' = Response("update", 200, req, updated, fault)
        /\ updates' = updates + 1
        /\ UNCHANGED <<files, nextId, usedUuids, now, issued, inflight>>

-----------------------------------------------------------------------------
(* DELETE /applications/{application_id} *)

DeleteFaults == {"none", "remove_resume", "remove_cover_letter", "commit"}

\* `if path and os.path.exists(path): os.remove(path)` for an Optional path
RemoveIfExists(fs, path) ==
    IF path # None /\ Exists(fs, Val(path)) THEN RemoveFile(fs, Val(path)) ELSE fs

\* delete_application.  fault names the statement that raises; nothing in the
\* handler catches it, so the framework answers 500 and the statements after
\* it do not run.
delete_application(application_id, fault) ==
    LET application == QueryFirst(db, application_id)
        row == Val(application)
        fs1 == RemoveIfExists(files, Some(row.resume_path))
        fs2 == RemoveIfExists(fs1, row.cover_letter_path)
    IN  /\ fault \in DeleteFaults
        /\ IF application = None
           THEN /\ fault = "none"
                /\ resp' = Response("delete", 404, application_id,
                                    [detail |-> "Application not found"], fault)
                /\ UNCHANGED <<db, files>>
           ELSE CASE fault = "remove_resume" ->
                        /\ Exists(files, row.resume_path)
                        /\ resp' = Response("delete", 500, application_id,
                                            [detail |-> "Internal Server Error"], fault)
                        /\ UNCHANGED <<db, files>>
                  [] fault = "remove_cover_letter" ->
                        /\ row.cover_letter_path # None
                        /\ Exists(fs1, Val(row.cover_letter_path))
                        /\ resp' = Response("delete", 500, application_id,
                                            [detail |-> "Internal Server Error"], fault)
                        /\ files' = fs1
                        /\ UNCHANGED db
                  [] fault = "commit" ->
                        /\ resp' = Response("delete", 500, application_id,
                                            [detail |-> "Internal Server Error"], fault)
                        /\ files' = fs2
                        /\ UNCHANGED db
                  [] OTHER ->
                        /\ resp' = Response("delete", 200, application_id,
                                            [message |-> "Application deleted successfully"],
                                            fault)
                        /\ files' = fs2
                        /\ db' = DeleteRow(db, application_id)
        /\ UNCHANGED <<nextId, usedUuids, now, issued, updates, inflight>>

-----------------------------------------------------------------------------
(* The clock *)

\* time passes between two readings of datetime.now()
Tick ==
    /\ now < MaxClock
    /\ now' = now + 1
    /\ UNCHANGED <<db, files, nextId, usedUuids, resp, issued, updates, inflight>>

-----------------------------------------------------------------------------
(* GET /applications/ *)

\* SQL lower() on one character of the model's alphabet
Lower(c) == CASE c = "A" -> "a" [] c = "B" -> "b" [] c = "C" -> "c" [] OTHER -> c

LowerStr(s) == [i \in 1..Len(s) |-> Lower(s[i])]

RECURSIVE Like(_, _)
\* SQL `s LIKE pattern`: % matches any run of characters, _ any one character
Like(s, pattern) ==
    IF pattern = <<>> THEN s = <<>>
    ELSE IF Head(pattern) = "%"
         THEN Like(s, Tail(pattern)) \/ (s # <<>> /\ Like(Tail(s), pattern))
    ELSE /\ s # <<>>
         /\ (Head(pattern) = "_" \/ Head(pattern) = Head(s))
         /\ Like(Tail(s), Tail(pattern))

\* column.ilike(pattern): lower(column) LIKE lower(pattern); NULL (None) for a
\* NULL column, else Some(TRUE) or Some(FALSE)
ilike(column, pattern) ==
    IF column = None THEN None
    ELSE Some(Like(LowerStr(Val(column)), LowerStr(pattern)))

\* SQL's three-valued OR
Or3(a, b) ==
    IF a = Some(TRUE) \/ b = Some(TRUE) THEN Some(TRUE)
    ELSE IF a = None \/ b = None THEN None
    ELSE Some(FALSE)

\* the search filter: search = f"%{search}%" and the four ilike's OR-ed
SearchFilter(row, search) ==
    LET pattern == <<"%">> \o search \o <<"%">>
    IN  Or3(Or3(Or3(ilike(Some(row.company_name), pattern),
                    ilike(Some(row.job_title), pattern)),
                ilike(row.referrer_name, pattern)),
            ilike(row.recruiter_name, pattern))

\* Python truthiness of an Optional[str]: None and the empty string are false
Truthy(o, empty) == o # None /\ o # Some(empty)

\* the rows of the query after `if search:` and `if status:`; a WHERE clause
\* keeps the rows on which it is TRUE
FilteredRows(table, search, status) ==
    {row \in {table[i] : i \in DOMAIN table} :
        /\ Truthy(search, <<>>) => SearchFilter(row, Val(search)) = Some(TRUE)
        /\ Truthy(status, "") => row.status = Val(status)}

\* an ordering by applied_date ascending
OrderByDateAsc(rows) ==
    LET n == Cardinality(rows)
    IN  {ord \in [1..n -> rows] :
            /\ \A i, j \in 1..n : i # j => ord[i] # ord[j]
            /\ \A i, j \in 1..n : i < j => ord[i].applied_date <= ord[j].applied_date}

\* order_by(applied_date.desc()): every arrangement of the rows with
\* applied_date descending; SQL leaves the order of equal dates open
OrderByDateDesc(rows) ==
    LET n == Cardinality(rows)
    IN  {ord \in [1..n -> rows] :
            /\ \A i, j \in 1..n : i # j => ord[i] # ord[j]
            /\ \A i, j \in 1..n : i < j => ord[i].applied_date >= ord[j].applied_date}

\* OFFSET skip where the engine takes a negative offset (SQLite: as zero)
Offset(ord, skip) ==
    IF skip <= 0 THEN ord ELSE SubSeq(ord, skip + 1, Len(ord))

\* LIMIT limit where the engine takes a negative limit (SQLite: no bound)
Limit(ord, limit) ==
    IF limit < 0 \/ limit >= Len(ord) THEN ord ELSE SubSeq(ord, 1, limit)

\* Python's a // b: the floor of a / b, for either sign of b (b # 0)
FloorDiv(a, b) == IF b > 0 THEN a \div b ELSE (0 - a) \div (0 - b)

\* a dictionary whose total counts the page and whose total_pages rounds down
ListBodyOfPage(total, applications, skip, limit) ==
    [total |-> Len(applications),
     applications |-> applications,
     page |-> FloorDiv(skip, limit) + 1,
     total_pages |-> FloorDiv(total, limit)]

\* the dictionary get_applications returns
ListBody(total, applications, skip, limit) ==
    [total |-> total,
     applications |-> applications,
     page |-> FloorDiv(skip, limit) + 1,
     total_pages |-> FloorDiv(total + limit - 1, limit)]

\* Every response get_applications can give.  negative_ok says whether the
\* engine behind SessionLocal takes a negative LIMIT or OFFSET (SQLite does,
\* PostgreSQL and MySQL raise); limit = 0 raises ZeroDivisionError after the
\* query.  An exception is answered 500.
ListResponses(table, skip, limit, search, status, negative_ok) ==
    LET req == [skip |-> skip, limit |-> limit, search |-> search,
                status |-> status]
        rows == FilteredRows(table, search, status)
        total == Cardinality(rows)
    IN  IF ((skip < 0 \/ limit < 0) /\ ~negative_ok) \/ limit = 0
        THEN {Response("list", 500, req, [detail |-> "Internal Server Error"],
                       IF limit = 0 THEN "ZeroDivisionError" ELSE "query")}
        ELSE {Response("list", 200, req,
                       ListBody(total, Limit(Offset(ord, skip), limit), skip, limit),
                       "none") :
                ord \in OrderByDateDesc(rows)}

get_applications(skip, limit, search, status, negative_ok) ==
    /\ resp' \in ListResponses(db, skip, limit, search, status, negative_ok)
    /\ UNCHANGED <<db, files, nextId, usedUuids, now, issued, updates, inflight>>

-----------------------------------------------------------------------------
(* Requests *)

\* uuid.uuid4(): a value that was not drawn before.  The handlers only copy
\* it into the paths, so which value is drawn does not matter: the model
\* draws them in a fixed order.
FreshUuid == <<"uuid4", Cardinality(usedUuids) + 1>>

\* ids a request may name: the ones the table can hand out and one more
Ids == 1..(MaxCreates + 1)

\* the creation form as app.py posts it (text_input values through `or None`)
Form(title, company, ref_name, ref_email, rec_name, rec_email, status, loc, tailored) ==
    [job_title       |-> title,
     company_name    |-> company,
     job_description |-> "description",
     my_location     |-> OrNone(loc, ""),
     referrer_name   |-> OrNone(ref_name, <<>>),
     referrer_email  |-> OrNone(ref_email, ""),
     recruiter_name  |-> OrNone(rec_name, <<>>),
     recruiter_email |-> OrNone(rec_email, ""),
     status          |-> status,
     is_tailored     |-> tailored]

Upload(filename, blob) == [filename |-> filename, blob |-> blob]

PdfResume == Upload(<<"c", "v", ".", "p">>, "resume bytes")
BareResume == Upload(<<"c", "v">>, "resume bytes 2")
DocCoverLetter == Upload(<<"l", ".", "b", ".", "d">>, "cover letter bytes")

Init ==
    /\ db = <<>>
    /\ files = <<>>
    /\ nextId = 1
    /\ usedUuids = {}
    /\ now = 1
    /\ resp = Response("none", 0, NoBody, NoBody, "none")
    /\ issued = <<>>
    /\ updates = 0
    /\ inflight = <<>>

-----------------------------------------------------------------------------
(* The record store under faults: create, get, update and delete, where any *)
(* file or database statement may raise                                     *)

PlainForm ==
    Form(<<"a">>, <<"b">>, None, None, None, None, None, None, FALSE)
FullForm ==
    Form(<<"a">>, <<"c">>, Some(<<"b">>), Some("referrer@x"), Some(<<"c">>),
         Some("recruiter@x"), Some("Interview"), Some("Paris"), TRUE)

StoreCreates ==
    {<<PlainForm, PdfResume, None>>, <<FullForm, BareResume, Some(DocCoverLetter)>>}

StoreBodies == {[status |-> Some("Offer")]}

Next ==
    \/ \E c \in StoreCreates, fault \in CreateFaults :
          /\ Cardinality(usedUuids) < MaxCreates
          /\ create_application(c[1], c[2], c[3], FreshUuid, fault)
    \/ \E id \in Ids : get_application(id)
    \/ \E id \in Ids, body \in StoreBodies, fault \in UpdateFaults :
          update_application(id, body, fault)
    \/ \E id \in Ids, fault \in DeleteFaults : delete_application(id, fault)

Spec == Init /\ [][Next]_vars

-----------------------------------------------------------------------------
(* Claims on the record store under faults *)

Stored(id) == id \in DOMAIN db

WasIssued(id) == \E k \in 1..Len(issued) : issued[k] = id

\* the id a get, update or delete response answers
RequestId(r) == IF r.op = "update" THEN r.req.id ELSE r.req

ById(r) == r.op \in {"get", "update", "delete"}

\* C4: a successful Delete(id) leaves id unstored, an id that was deleted is
\* never stored again, and a Get, Update or Delete of an id that is not
\* stored (a repeated Delete among them) answers 404 and changes neither the
\* table nor the files.
C4_DeletedIsNotFound ==
    /\ [](resp.op = "delete" /\ resp.code = 200 => ~Stored(resp.req))
    /\ [][\A id \in Ids : ~Stored(id) =>
            /\ WasIssued(id) => id \notin DOMAIN db'
            /\ (ById(resp') /\ RequestId(resp') = id) =>
                    /\ resp'.code = 404
                    /\ db' = db
                    /\ files' = files]_vars

\* a second Delete of an id that was created and deleted has been answered
C4_Witness ==
    /\ resp.op = "delete"
    /\ resp.code = 404
    /\ WasIssued(resp.req)

\* C5: the ids successful Creates have returned are pairwise different,
\* whether or not their rows are still stored, and the id in a Create's
\* response is the latest of them.
C5_IdsNeverReused ==
    /\ \A j, k \in 1..Len(issued) : j # k => issued[j] # issued[k]
    /\ (resp.op = "create" /\ resp.code = 200) =>
            /\ Len(issued) > 0
            /\ resp.body.id = issued[Len(issued)]
            /\ Stored(resp.body.id)

\* a Create has succeeded after the row of an earlier Create was deleted
C5_Witness ==
    /\ resp.op = "create"
    /\ resp.code = 200
    /\ \E k \in 1..Len(issued) : ~Stored(issued[k])

\* C6: a Delete of a stored record during which the removal of one of its
\* files raises still answers success and removes the row.
C6_DeleteSurvivesFileError ==
    (resp.op = "delete" /\ resp.fault \in {"remove_resume", "remove_cover_letter"})
        => (resp.code = 200 /\ ~Stored(resp.req))

ExtensionOf(name) ==
    LET dots == {k \in 1..Len(name) :
                    /\ name[k] = "."
                    /\ \A j \in (k + 1)..Len(name) : name[j] # "."
                    /\ \E j \in 1..(k - 1) : name[j] # "."}
    IN  IF dots = {} THEN <<>>
        ELSE LET k == CHOOSE d \in dots : TRUE
             IN  [i \in 1..(Len(name) - k + 1) |-> name[k + i - 1]]

\* the paths recorded on the stored rows
StoredPaths(row) ==
    {row.resume_path} \cup row.cover_letter_path

\* the row of the latest Create keeps its files under the two directories as
\* {owner}_resume{ext} and {owner}_cover_letter{ext}, and the paths recorded
\* on different rows differ
PathsLaidOut(owner) ==
    /\ (resp.op = "create" /\ resp.code = 200) =>
            LET row == db[resp.body.id]
                resume_path ==
                    [dir |-> "uploads/resumes", owner |-> owner, kind |-> "_resume",
                     ext |-> ExtensionOf(resp.req.resume.filename)]
            IN  /\ row.resume_path = resume_path
                /\ resume_path \in DOMAIN files
                /\ files[resume_path] = resp.req.resume.blob
                /\ IF resp.req.cover_letter = None
                   THEN row.cover_letter_path = None
                   ELSE LET cover_letter == Val(resp.req.cover_letter)
                            cover_letter_path ==
                                [dir |-> "uploads/cover_letters", owner |-> owner,
                                 kind |-> "_cover_letter",
                                 ext |-> ExtensionOf(cover_letter.filename)]
                        IN  /\ row.cover_letter_path = Some(cover_letter_path)
                            /\ cover_letter_path \in DOMAIN files
                            /\ files[cover_letter_path] = cover_letter.blob
    /\ \A i, j \in DOMAIN db :
            i # j => StoredPaths(db[i]) \cap StoredPaths(db[j]) = {}

\* C13 as stated: the resume of a stored record is at
\* uploads/resumes/{id}_resume{ext} and its cover letter at
\* uploads/cover_letters/{id}_cover_letter{ext}, id being the identifier of
\* the record and ext the extension of the original file name; the record
\* holds these paths, and no two records share a path.  <<"id", n>> stands
\* for the decimal text of the identifier n.
C13_PathsNamedByRecordId ==
    PathsLaidOut(IF resp.op = "create" /\ resp.code = 200
                 THEN <<"id", resp.body.id>> ELSE <<"none", 0>>)

\* C13 as amended: the same with id the uuid4 value that the Create request
\* drew, which is not the identifier of the record.
C13_PathsNamedByRequestUuid ==
    PathsLaidOut(IF resp.op = "create" /\ resp.code = 200
                 THEN resp.req.uuid ELSE <<"none", 0>>)

\* a second record has been stored, with a cover letter whose name has two
\* dots, next to a record whose resume has the same name
C13_Witness ==
    /\ resp.op = "create"
    /\ resp.code = 200
    /\ resp.req.cover_letter # None
    /\ \E i \in DOMAIN db :
            /\ i # resp.body.id
            /\ db[i].resume_path.ext = db[resp.body.id].resume_path.ext

\* the fields of the creation form (app.py)
FormFields ==
    {"job_title", "company_name", "job_description", "my_location",
     "referrer_name", "referrer_email", "recruiter_name", "recruiter_email",
     "status", "is_tailored"}

\* what a form submits for field f: nothing (None) or a value
Submitted(form, f) ==
    IF f \in {"job_title", "company_name", "job_description", "is_tailored"}
    THEN Some(form[f]) ELSE form[f]

\* what a record holds in field f: NULL (None) or a value
Held(row, f) ==
    IF f \in {"job_title", "company_name", "job_description", "is_tailored",
               "status"}
    THEN Some(row[f]) ELSE row[f]

\* C14: a Get of the id that the Create before it returned answers with a
\* record that holds, in every field for which the creation form submitted
\* a value, that value.
C14_CreateGetRoundTrip ==
    [][(/\ resp.op = "create"
        /\ resp.code = 200
        /\ resp'.op = "get"
        /\ resp'.req = resp.body.id)
            => /\ resp'.code = 200
               /\ \A f \in FormFields :
                    Submitted(resp.req.form, f) # None
                        => Held(resp'.body, f) = Submitted(resp.req.form, f)]_vars

-----------------------------------------------------------------------------
(* The record store under partial updates: no statement raises, the forms   *)
(* and the PUT bodies vary                                                  *)

BogusForm ==
    Form(<<"a">>, <<"b">>, None, None, Some(<<"c">>), None, Some("Bogus"),
         None, FALSE)

UpdateCreates ==
    {<<FullForm, BareResume, Some(DocCoverLetter)>>, <<BogusForm, PdfResume, None>>}

\* the JSON values a body gives a field: null, an empty text, a new value
JsonValues(f) ==
    CASE f = "status" -> {None, Some("Offer"), Some("Bogus")}
      [] f \in {"referrer_name", "recruiter_name"} ->
            {None, Some(<<>>), Some(<<"z">>)}
      [] f \in {"referrer_email", "recruiter_email", "my_location"} ->
            {None, Some(""), Some("new")}
      [] f = "is_tailored" -> {None, Some(TRUE)}

\* the body app.py sends: all seven keys
FullBody ==
    [f \in BodyFields |->
        CASE f = "status" -> Some("Rejected")
          [] f \in {"referrer_name", "recruiter_name"} -> Some(<<"z">>)
          [] f = "is_tailored" -> Some(TRUE)
          [] OTHER -> Some("new")]

\* the empty body, every body of one key, and the full body
UpdateBodies ==
    {<<>>, FullBody}
        \cup UNION {{[g \in {f} |-> v] : v \in JsonValues(f)} : f \in BodyFields}

NextUpdate ==
    \/ \E c \in UpdateCreates :
          /\ Cardinality(usedUuids) < MaxCreates
          /\ create_application(c[1], c[2], c[3], FreshUuid, "none")
    \/ \E id \in Ids, body \in UpdateBodies : update_application(id, body, "none")
    \/ \E id \in Ids : delete_application(id, "none")

SpecUpdate == Init /\ [][NextUpdate]_vars

-----------------------------------------------------------------------------
(* Claims on partial updates *)

\* the value of field f of a row as a JSON value (status and is_tailored are
\* not Optional in the row)
RowJson(row, f) ==
    IF f \in {"status", "is_tailored"} THEN Some(row[f]) ELSE row[f]

RowFields ==
    {"id", "company_name", "job_title", "job_description", "job_url",
     "resume_path", "cover_letter_path", "referrer_name", "referrer_email",
     "recruiter_name", "recruiter_email", "status", "is_tailored",
     "my_location", "applied_date"}

\* C1: every stored record's status is in the closed set, and an Update
\* whose status is outside the set is answered with a validation error (4xx)
\* and leaves the record as it was.
C1_StatusInClosedSet ==
    /\ \A id \in DOMAIN db : db[id].status \in STATUS_OPTIONS
    /\ (/\ resp.op = "update"
        /\ "status" \in DOMAIN resp.req.body
        /\ resp.req.body["status"] # None
        /\ Val(resp.req.body["status"]) \notin STATUS_OPTIONS
        /\ Stored(resp.req.id))
            => resp.code \in {400, 422}

\* C2: after a successful Update the stored record holds, for every key of
\* the body, the value the body gives it (null and the empty text among
\* them), and the response is the stored record.
C2_ProvidedFieldsStored ==
    (resp.op = "update" /\ resp.code = 200) =>
        /\ Stored(resp.req.id)
        /\ resp.body = db[resp.req.id]
        /\ \A f \in DOMAIN resp.req.body :
                RowJson(db[resp.req.id], f) = resp.req.body[f]

\* C3: an Update changes no file, no other record, and in its own record no
\* field that the body does not carry: id, applied_date, resume_path,
\* cover_letter_path, job_title, company_name and job_description never.
C3_UpdateFrame ==
    [][resp'.op = "update" =>
        /\ files' = files
        /\ DOMAIN db' = DOMAIN db
        /\ \A id \in DOMAIN db :
            /\ id # resp'.req.id => db'[id] = db[id]
            /\ \A f \in RowFields \ DOMAIN resp'.req.body : db'[id][f] = db[id][f]
            /\ \A f \in RowFields \ BodyFields : db'[id][f] = db[id][f]]_vars

\* an Update of the status alone has changed the status of one of two stored
\* records, whose contact fields and cover letter are set
C3_Witness ==
    /\ resp.op = "update"
    /\ resp.code = 200
    /\ DOMAIN resp.req.body = {"status"}
    /\ Cardinality(DOMAIN db) = 2
    /\ db[resp.req.id].status = "Offer"
    /\ db[resp.req.id].referrer_name # None
    /\ db[resp.req.id].cover_letter_path # None

-----------------------------------------------------------------------------
(* The list query: records of different names, statuses and dates are       *)
(* created while the clock runs, and listed under every search text, status *)
(* filter, skip and limit                                                   *)

ListForms ==
    {Form(<<"c">>, <<"A", "b">>, None, None, None, None, None, None, FALSE),
     Form(<<"c">>, <<"c">>, Some(<<"b">>), None, Some(<<"b", "A">>), None,
          Some("Offer"), None, FALSE)}

Searches == {None, Some(<<>>), Some(<<"B", "a">>), Some(<<"_">>)}

StatusFilters == {None, Some(""), Some("Offer")}

Skips == (0 - 1)..MaxSkip

Limits == (0 - 1)..MaxLimit

ListRequest(skip, limit, search, status) ==
    [skip |-> skip, limit |-> limit, search |-> search, status |-> status]

\* the requests: every search text, every status filter and both filters
\* together on the first window, and every skip and limit without a filter
\* and with both
ListRequests ==
    {ListRequest(0, MaxLimit, search, None) : search \in Searches}
    \cup {ListRequest(0, MaxLimit, None, status) : status \in StatusFilters}
    \cup {ListRequest(0, 1, Some(<<"_">>), Some(""))}
    \cup {ListRequest(skip, limit, None, None) : skip \in Skips, limit \in Limits}
    \cup {ListRequest(skip, limit, Some(<<"B", "a">>), Some("Offer")) :
            skip \in Skips, limit \in Limits}

NextList ==
    \/ \E form \in ListForms :
          /\ Cardinality(usedUuids) < MaxRows
          /\ create_application(form, PdfResume, None, FreshUuid, "none")
    \/ Tick
    \/ \E r \in ListRequests :
          \E negative_ok \in (IF r.skip < 0 \/ r.limit < 0 THEN BOOLEAN ELSE {TRUE}) :
            get_applications(r.skip, r.limit, r.search, r.status, negative_ok)

SpecList == Init /\ [][NextList]_vars

-----------------------------------------------------------------------------
(* Claims on the list query *)

\* sub occurs in s as a run of consecutive characters, letter case aside
ContainsIgnoringCase(s, sub) ==
    \E k \in 0..(Len(s) - Len(sub)) :
        SubSeq(LowerStr(s), k + 1, k + Len(sub)) = LowerStr(sub)

\* a filter that was not sent, or was sent empty
Absent(o, empty) == o = None \/ o = Some(empty)

\* the records the claimed filter selects
Matching(table, search, status) ==
    {row \in {table[i] : i \in DOMAIN table} :
        /\ \/ Absent(search, <<>>)
           \/ ContainsIgnoringCase(row.company_name, Val(search))
           \/ ContainsIgnoringCase(row.job_title, Val(search))
           \/ row.referrer_name # None
                /\ ContainsIgnoringCase(Val(row.referrer_name), Val(search))
           \/ row.recruiter_name # None
                /\ ContainsIgnoringCase(Val(row.recruiter_name), Val(search))
        /\ Absent(status, "") \/ row.status = Val(status)}

Range(seq) == {seq[k] : k \in 1..Len(seq)}

ListAnswered == resp.op = "list" /\ resp.code = 200

\* C8: List counts and returns exactly the records in which the search text
\* is a case-insensitive substring of company_name, job_title, referrer_name
\* or recruiter_name (when a search is sent) and whose status equals the
\* status filter (when one is sent); stated for skip >= 0 and limit >= 1.
C8_FilterIsSubstringMatch ==
    (ListAnswered /\ resp.req.skip >= 0 /\ resp.req.limit >= 1) =>
        LET matching == Matching(db, resp.req.search, resp.req.status)
        IN  /\ resp.body.total = Cardinality(matching)
            /\ Range(resp.body.applications) \subseteq matching
            /\ (resp.req.skip = 0 /\ resp.req.limit >= Cardinality(matching))
                    => Range(resp.body.applications) = matching

\* the entries of ord at the positions first..last, counted from 0
Positions(ord, first, last) ==
    LET at == {k \in 1..Len(ord) : first + 1 <= k /\ k <= last + 1}
    IN  [k \in 1..Cardinality(at) |-> ord[first + k]]

\* every arrangement of rows in a sequence, each row once
Arrangements(rows) ==
    {ord \in [1..Cardinality(rows) -> rows] : Range(ord) = rows}

DatesDescend(seq) ==
    \A j, k \in 1..Len(seq) : j < k => seq[j].applied_date >= seq[k].applied_date

RECURSIVE PagedThrough(_, _, _, _, _)
\* what a client can collect that asks for the windows skip, skip + limit,
\* ... in turn until a window starts beyond the total
PagedThrough(table, skip, limit, search, status) ==
    IF skip >= Cardinality(FilteredRows(table, search, status)) THEN {<<>>}
    ELSE {r.body.applications \o rest :
            r \in ListResponses(table, skip, limit, search, status, TRUE),
            rest \in PagedThrough(table, skip + limit, limit, search, status)}

\* every row occurs exactly once in seq
EachOnce(rows, seq) == Len(seq) = Cardinality(rows) /\ Range(seq) = rows

\* C9 as stated: the applications are in descending applied_date, they are
\* the entries at positions skip .. skip+limit-1 of the filtered records in
\* that order, and paging through consecutive windows returns every filtered
\* record exactly once.
C9_WindowOfDescendingOrder ==
    ListAnswered =>
        LET rows == FilteredRows(db, resp.req.search, resp.req.status)
        IN  /\ DatesDescend(resp.body.applications)
            /\ \E ord \in Arrangements(rows) :
                    /\ DatesDescend(ord)
                    /\ resp.body.applications
                            = Positions(ord, resp.req.skip,
                                        resp.req.skip + resp.req.limit - 1)
            /\ resp.req.limit >= 1 =>
                    \A collected \in PagedThrough(db, 0, resp.req.limit,
                                                  resp.req.search, resp.req.status) :
                        EachOnce(rows, collected)

DatesDiffer(rows) ==
    \A r1, r2 \in rows : r1 # r2 => r1.applied_date # r2.applied_date

\* C9 as amended: for skip >= 0 and limit >= 1 the applications are in
\* descending applied_date and are the entries at positions skip ..
\* skip+limit-1 of one descending order of the filtered records; when the
\* filtered records' applied_dates are pairwise different, paging through
\* consecutive windows returns every filtered record exactly once.
C9_WindowForNaturalSkipAndLimit ==
    (ListAnswered /\ resp.req.skip >= 0 /\ resp.req.limit >= 1) =>
        LET rows == FilteredRows(db, resp.req.search, resp.req.status)
        IN  /\ DatesDescend(resp.body.applications)
            /\ \E ord \in Arrangements(rows) :
                    /\ DatesDescend(ord)
                    /\ resp.body.applications
                            = Positions(ord, resp.req.skip,
                                        resp.req.skip + resp.req.limit - 1)
            /\ DatesDiffer(rows) =>
                    \A collected \in PagedThrough(db, 0, resp.req.limit,
                                                  resp.req.search, resp.req.status) :
                        EachOnce(rows, collected)

\* the second window of one record has been returned out of two filtered
\* records of different dates
C9_Witness ==
    /\ ListAnswered
    /\ resp.req.skip = 1
    /\ resp.req.limit = 1
    /\ Len(resp.body.applications) = 1
    /\ resp.body.total = 2
    /\ DatesDiffer(FilteredRows(db, resp.req.search, resp.req.status))

\* the floor and the ceiling of a / b (b # 0), from their definitions
Floor(a, b) ==
    CHOOSE n \in (0 - (a * a + 1))..(a * a + 1) :
        IF b > 0 THEN n * b <= a /\ a < (n + 1) * b
        ELSE n * b >= a /\ a > (n + 1) * b

Ceiling(a, b) ==
    CHOOSE n \in (0 - (a * a + 1))..(a * a + 1) :
        IF b > 0 THEN (n - 1) * b < a /\ a <= n * b
        ELSE (n - 1) * b > a /\ a >= n * b

\* C10 as stated: for every skip and limit that List answers, total is the
\* number of filtered records, page is floor(skip/limit) + 1 and total_pages
\* is ceil(total/limit).
C10_PageArithmetic ==
    ListAnswered =>
        /\ resp.body.total
            = Cardinality(FilteredRows(db, resp.req.search, resp.req.status))
        /\ resp.body.page = Floor(resp.req.skip, resp.req.limit) + 1
        /\ resp.body.total_pages = Ceiling(resp.body.total, resp.req.limit)

\* C10 as amended: for every skip and every limit >= 1 that List answers,
\* total is the number of filtered records, page is floor(skip/limit) + 1
\* and total_pages is ceil(total/limit).
C10_PageArithmeticForPositiveLimit ==
    (ListAnswered /\ resp.req.limit >= 1) =>
        /\ resp.body.total
            = Cardinality(FilteredRows(db, resp.req.search, resp.req.status))
        /\ resp.body.page = Floor(resp.req.skip, resp.req.limit) + 1
        /\ resp.body.total_pages = Ceiling(resp.body.total, resp.req.limit)

\* a page of one record out of two has been answered from beyond the first
\* window, with more than one page in all
C10_Witness ==
    /\ ListAnswered
    /\ resp.req.limit = 1
    /\ resp.req.skip = 1
    /\ resp.body.total = 2
    /\ resp.body.page = 2
    /\ resp.body.total_pages = 2

-----------------------------------------------------------------------------
(* scraper.py: scrape_job_info.  A parsed document (soup) is the sequence of *)
(* its elements in document order; an element carries its tag name, the     *)
(* tokens of its class attribute, its itemprop and id attributes, and its   *)
(* text (its own and its descendants').  A literal of the code is a text of *)
(* one piece.                                                               *)

Element(name, class, itemprop, id, text) ==
    [name |-> name, class |-> class, itemprop |-> itemprop, id |-> id,
     text |-> text]

Whitespace == {" ", "\n"}

RECURSIVE LStrip(_)
LStrip(text) ==
    IF text # <<>> /\ Head(text) \in Whitespace THEN LStrip(Tail(text)) ELSE text

RECURSIVE RStrip(_)
RStrip(text) ==
    IF text # <<>> /\ text[Len(text)] \in Whitespace
    THEN RStrip(SubSeq(text, 1, Len(text) - 1)) ELSE text

\* str.strip()
Strip(text) == RStrip(LStrip(text))

\* re.I on one character of the model's alphabet
CaseFold(c) ==
    CASE c = "T" -> "t" [] c = "C" -> "c" [] c = "D" -> "d" [] c = "P" -> "p"
      [] OTHER -> c

\* pattern.search(s) for a pattern that is an alternation of literals,
\* compiled with re.I
re_search(alternatives, s) ==
    \E alt \in alternatives :
        \E k \in 0..(Len(s) - Len(alt)) :
            \A i \in 1..Len(alt) : CaseFold(s[k + i]) = CaseFold(alt[i])

\* r'title|job-title|position'
TitlePattern ==
    {<<"t", "i", "t", "l", "e">>,
     <<"j", "o", "b", "-", "t", "i", "t", "l", "e">>,
     <<"p", "o", "s", "i", "t", "i", "o", "n">>}

\* r'company|employer|organization'
CompanyPattern ==
    {<<"c", "o", "m", "p", "a", "n", "y">>,
     <<"e", "m", "p", "l", "o", "y", "e", "r">>,
     <<"o", "r", "g", "a", "n", "i", "z", "a", "t", "i", "o", "n">>}

\* r'description|job-description|details'
DescriptionPattern ==
    {<<"d", "e", "s", "c", "r", "i", "p", "t", "i", "o", "n">>,
     <<"j", "o", "b", "-", "d", "e", "s", "c", "r", "i", "p", "t", "i", "o", "n">>,
     <<"d", "e", "t", "a", "i", "l", "s">>}

\* the class token 'content'
ContentClass == <<"c", "o", "n", "t", "e", "n", "t">>

\* the tests of soup.find: by tag name, by class_ (a compiled pattern is
\* searched in each token, a string is compared with each token), by
\* itemprop (a string, compared), by id (a compiled pattern, searched)
HasName(el, name) == el.name = name
HasClassMatching(el, pattern) == \E token \in el.class : re_search(pattern, token)
HasClass(el, class) == class \in el.class
HasItemprop(el, itemprop) == el.itemprop = Some(itemprop)
HasIdMatching(el, pattern) == el.id # None /\ re_search(pattern, Val(el.id))

\* the keyword arguments of soup.find
ByName(name) == [by |-> "name", arg |-> name]
ByClassPattern(pattern) == [by |-> "class_ pattern", arg |-> pattern]
ByItemprop(itemprop) == [by |-> "itemprop", arg |-> itemprop]
ByIdPattern(pattern) == [by |-> "id pattern", arg |-> pattern]
ByNameAndClass(name, class) == [by |-> "name and class_", arg |-> <<name, class>>]

Passes(el, selector) ==
    CASE selector.by = "name" -> HasName(el, selector.arg)
      [] selector.by = "class_ pattern" -> HasClassMatching(el, selector.arg)
      [] selector.by = "itemprop" -> HasItemprop(el, selector.arg)
      [] selector.by = "id pattern" -> HasIdMatching(el, selector.arg)
      [] selector.by = "name and class_" ->
            HasName(el, selector.arg[1]) /\ HasClass(el, selector.arg[2])

\* soup.find(...): the first element of the document that passes the test,
\* or None
find(soup, selector) ==
    LET hits == {i \in 1..Len(soup) : Passes(soup[i], selector)}
    IN  IF hits = {} THEN None
        ELSE Some(soup[CHOOSE i \in hits : \A j \in hits : i <= j])

\* `candidate and candidate.text.strip()`: an element that was found is true
\* whatever it holds (Tag.__bool__)
Usable(candidate) == candidate # None /\ Strip(Val(candidate).text) # <<>>

RECURSIVE FirstUsable(_)
\* the for loop over the candidates with its break: the stripped text of the
\* first usable candidate, or None
FirstUsable(candidates) ==
    IF candidates = <<>> THEN None
    ELSE IF Usable(Head(candidates)) THEN Some(Strip(Val(Head(candidates)).text))
    ELSE FirstUsable(Tail(candidates))

title_candidates(soup) ==
    <<find(soup, ByName("h1")),
      find(soup, ByName("title")),
      find(soup, ByClassPattern(TitlePattern))>>

company_candidates(soup) ==
    <<find(soup, ByClassPattern(CompanyPattern)),
      find(soup, ByItemprop("hiringOrganization")),
      find(soup, ByItemprop("name"))>>

description_candidates(soup) ==
    <<find(soup, ByClassPattern(DescriptionPattern)),
      find(soup, ByItemprop("description")),
      find(soup, ByIdPattern(DescriptionPattern))>>

\* `a or b or c` over elements: the first that was found
FirstFound(candidates) ==
    IF candidates[1] # None THEN candidates[1]
    ELSE IF candidates[2] # None THEN candidates[2]
    ELSE candidates[3]

\* soup.find('main') or soup.find('article') or soup.find('div', class_='content')
main_content(soup) ==
    FirstFound(<<find(soup, ByName("main")),
                 find(soup, ByName("article")),
                 find(soup, ByNameAndClass("div", ContentClass))>>)

\* `if not job_title: job_title = "Unknown Position"`
OrPlaceholder(text, placeholder) ==
    IF text = None \/ text = Some(<<>>) THEN <<placeholder>> ELSE Val(text)

job_title(soup) == OrPlaceholder(FirstUsable(title_candidates(soup)), "Unknown Position")

company_name(soup) == OrPlaceholder(FirstUsable(company_candidates(soup)), "Unknown Company")

\* the description: the candidates, then the main content whatever its text,
\* then the placeholder
job_description(soup) ==
    LET found == FirstUsable(description_candidates(soup))
    IN  IF found # None THEN Val(found)
        ELSE IF main_content(soup) # None THEN Strip(Val(main_content(soup)).text)
        ELSE <<"No description available">>

\* what session.get and response.text() give: the status and the parsed
\* html, or an exception of the network
Fetched(status, html) == [status |-> status, html |-> html, raised |-> FALSE]
FetchFailed == [status |-> 0, html |-> <<>>, raised |-> TRUE]

\* scrape_job_info(url) from the point where the fetch has been answered:
\* call h returns the three fields, or raises when the fetch raised or the
\* status is not 200
scrape_job_info(h) ==
    LET call == inflight[h]
        soup == call.fetched.html
    IN  /\ h \in DOMAIN inflight
        /\ call.op = "scrape"
        /\ call.pc = "fetched"
        /\ inflight' = [inflight EXCEPT ![h].pc = "done"]
        /\ resp' = IF call.fetched.raised \/ call.fetched.status # 200
                   THEN Response("scrape", call.fetched.status, call, NoBody,
                                 "Failed to scrape job information")
                   ELSE Response("scrape", 200, call,
                                 [company_name    |-> company_name(soup),
                                  job_title       |-> job_title(soup),
                                  job_description |-> job_description(soup)],
                                 "none")
        /\ UNCHANGED <<db, files, nextId, usedUuids, now, issued, updates>>

-----------------------------------------------------------------------------
(* The scraper on every document of a few elements: the fetch of one call   *)
(* has been answered, the call parses the document and returns              *)

\* the elements of a fetched document
MaxElements == 2

Texts == {<<" ">>, <<" ", "a">>, <<"b", "\n">>}

Markup ==
    {Element("h1", {}, None, None, <<>>),
     Element("title", {}, None, None, <<>>),
     Element("span", {<<"j", "o", "b", "-", "T", "i", "t", "l", "e">>}, None, None, <<>>),
     Element("div", {<<"C", "o", "m", "p", "a", "n", "y">>}, None, None, <<>>),
     Element("span", {}, Some("hiringOrganization"), None, <<>>),
     Element("span", {}, Some("name"), None, <<>>),
     Element("div", {<<"d", "e", "t", "a", "i", "l", "s">>}, None, None, <<>>),
     Element("div", {}, Some("description"), None, <<>>),
     Element("div", {}, None, Some(<<"D", "e", "s", "c", "r", "i", "p", "t", "i", "o", "n">>), <<>>),
     Element("main", {}, None, None, <<>>),
     Element("article", {}, None, None, <<>>),
     Element("div", {<<"b", "o", "x">>, ContentClass}, None, None, <<>>),
     Element("p", {<<"b", "o", "x">>}, None, None, <<>>)}

Elements == {[el EXCEPT !.text = text] : el \in Markup, text \in Texts}

Documents == UNION {[1..n -> Elements] : n \in 0..MaxElements}

Fetches == {Fetched(200, html) : html \in Documents}
            \cup {Fetched(404, <<>>), FetchFailed}

InitScrape ==
    /\ db = <<>>
    /\ files = <<>>
    /\ nextId = 1
    /\ usedUuids = {}
    /\ now = 1
    /\ resp = Response("none", 0, NoBody, NoBody, "none")
    /\ issued = <<>>
    /\ updates = 0
    /\ \E fetched \in Fetches :
          inflight = <<[op |-> "scrape", pc |-> "fetched", fetched |-> fetched]>>

NextScrape == \E h \in DOMAIN inflight : scrape_job_info(h)

SpecScrape == InitScrape /\ [][NextScrape]_vars

-----------------------------------------------------------------------------
(* Claims on the scraper *)

\* a text without the whitespace at its two ends
Trim(text) ==
    LET solid == {i \in 1..Len(text) : text[i] \notin {" ", "\n"}}
    IN  IF solid = {} THEN <<>>
        ELSE LET lo == CHOOSE i \in solid : \A j \in solid : i <= j
                 hi == CHOOSE i \in solid : \A j \in solid : j <= i
             IN  [i \in 1..(hi - lo + 1) |-> text[lo + i - 1]]

\* the element of doc at the least of the positions, None when there is none
First(doc, positions) ==
    IF positions = {} THEN None
    ELSE Some(doc[CHOOSE i \in positions : \A j \in positions : i <= j])

\* the candidates of each field in the order of the claim: the first element
\* of each kind, None where the document has none
TitleChain(doc) ==
    <<First(doc, {i \in DOMAIN doc : doc[i].name = "h1"}),
      First(doc, {i \in DOMAIN doc : doc[i].name = "title"}),
      First(doc, {i \in DOMAIN doc : HasClassMatching(doc[i], TitlePattern)})>>

CompanyChain(doc) ==
    <<First(doc, {i \in DOMAIN doc : HasClassMatching(doc[i], CompanyPattern)}),
      First(doc, {i \in DOMAIN doc : doc[i].itemprop = Some("hiringOrganization")}),
      First(doc, {i \in DOMAIN doc : doc[i].itemprop = Some("name")})>>

DescriptionChain(doc) ==
    <<First(doc, {i \in DOMAIN doc : HasClassMatching(doc[i], DescriptionPattern)}),
      First(doc, {i \in DOMAIN doc : doc[i].itemprop = Some("description")}),
      First(doc, {i \in DOMAIN doc : HasIdMatching(doc[i], DescriptionPattern)}),
      First(doc, {i \in DOMAIN doc : doc[i].name = "main"}),
      First(doc, {i \in DOMAIN doc : doc[i].name = "article"}),
      First(doc, {i \in DOMAIN doc :
                    doc[i].name = "div" /\ ContentClass \in doc[i].class})>>

\* the candidates of a chain that are present with a non-empty trimmed text
Yielding(chain) ==
    {k \in 1..Len(chain) : chain[k] # None /\ Trim(Val(chain[k]).text) # <<>>}

\* the trimmed text of the first such candidate
FirstYield(chain) ==
    Trim(Val(chain[CHOOSE k \in Yielding(chain) :
                        \A j \in Yielding(chain) : k <= j]).text)

Returned == resp.op = "scrape" /\ resp.fault = "none"

Page == resp.req.fetched.html

\* C11: every field of a result Scrape returns is a non-empty text, and a
\* field for which no candidate of its chain yields text is its placeholder.
C11_FieldsNeverEmpty ==
    Returned =>
        /\ resp.body.job_title # <<>>
        /\ resp.body.company_name # <<>>
        /\ resp.body.job_description # <<>>
        /\ Yielding(TitleChain(Page)) = {}
                => resp.body.job_title = <<"Unknown Position">>
        /\ Yielding(CompanyChain(Page)) = {}
                => resp.body.company_name = <<"Unknown Company">>
        /\ Yielding(DescriptionChain(Page)) = {}
                => resp.body.job_description = <<"No description available">>

\* C12: each field of a result is the trimmed text of the first candidate of
\* its chain that is present with a non-empty trimmed text, whenever there
\* is one.
C12_FirstYieldingCandidate ==
    Returned =>
        /\ Yielding(TitleChain(Page)) # {}
                => resp.body.job_title = FirstYield(TitleChain(Page))
        /\ Yielding(CompanyChain(Page)) # {}
                => resp.body.company_name = FirstYield(CompanyChain(Page))
        /\ Yielding(DescriptionChain(Page)) # {}
                => resp.body.job_description = FirstYield(DescriptionChain(Page))

-----------------------------------------------------------------------------
(* DELETE /applications/{application_id}, statement by statement.  Inside   *)
(* one server process the handler has no await and runs whole (the action   *)
(* delete_application above); calls served by different worker processes    *)
(* over the same table and the same uploads directory run their statements  *)
(* in any interleaving.  Each call has its own session, and no statement    *)
(* raises unless the state it meets makes it raise.                         *)

\* Delete calls in one run
MaxDeletes == 2

\* call h moves to statement pc
Goto(h, pc) == [inflight EXCEPT ![h].pc = pc]

\* call h ends with the status code
Answer(h, code, detail) ==
    /\ inflight' = [inflight EXCEPT ![h].pc = "done", ![h].code = code]
    /\ resp' = Response("delete", code, inflight[h].id, [detail |-> detail],
                        IF code = 500 THEN detail ELSE "none")

AtStatement(h, pc) ==
    /\ h \in DOMAIN inflight
    /\ inflight[h].op = "delete"
    /\ inflight[h].pc = pc

\* the request arrives and the handler opens its session
delete_start(application_id) ==
    /\ Len(inflight) < MaxDeletes
    /\ inflight' = Append(inflight,
                          [op |-> "delete", pc |-> "query", id |-> application_id,
                           stored_at_start |-> application_id \in DOMAIN db,
                           application |-> None, code |-> 0])
    /\ UNCHANGED <<db, files, nextId, usedUuids, now, resp, issued, updates>>

\* application = db.query(...).first() and `if not application`
delete_query(h) ==
    /\ AtStatement(h, "query")
    /\ LET application == QueryFirst(db, inflight[h].id)
       IN  IF application = None
           THEN Answer(h, 404, "Application not found")
           ELSE /\ inflight' = [inflight EXCEPT ![h].pc = "resume_exists",
                                                ![h].application = application]
                /\ UNCHANGED resp
    /\ UNCHANGED <<db, files, nextId, usedUuids, now, issued, updates>>

\* `if application.resume_path and os.path.exists(application.resume_path)`
delete_resume_exists(h) ==
    /\ AtStatement(h, "resume_exists")
    /\ inflight' = Goto(h, IF Exists(files, Val(inflight[h].application).resume_path)
                           THEN "resume_remove" ELSE "cover_letter_exists")
    /\ UNCHANGED <<db, files, nextId, usedUuids, now, resp, issued, updates>>

\* os.remove(path) by call h: FileNotFoundError when the file is not there,
\* which nothing catches
Remove(h, path, next) ==
    IF Exists(files, path)
    THEN /\ files' = RemoveFile(files, path)
         /\ inflight' = Goto(h, next)
         /\ UNCHANGED resp
    ELSE /\ Answer(h, 500, "FileNotFoundError")
         /\ UNCHANGED files

\* os.remove(application.resume_path)
delete_resume_remove(h) ==
    /\ AtStatement(h, "resume_remove")
    /\ Remove(h, Val(inflight[h].application).resume_path, "cover_letter_exists")
    /\ UNCHANGED <<db, nextId, usedUuids, now, issued, updates>>

\* `if application.cover_letter_path and os.path.exists(...)`
delete_cover_letter_exists(h) ==
    /\ AtStatement(h, "cover_letter_exists")
    /\ LET path == Val(inflight[h].application).cover_letter_path
       IN  inflight' = Goto(h, IF path # None /\ Exists(files, Val(path))
                               THEN "cover_letter_remove" ELSE "delete")
    /\ UNCHANGED <<db, files, nextId, usedUuids, now, resp, issued, updates>>

\* os.remove(application.cover_letter_path)
delete_cover_letter_remove(h) ==
    /\ AtStatement(h, "cover_letter_remove")
    /\ Remove(h, Val(Val(inflight[h].application).cover_letter_path), "delete")
    /\ UNCHANGED <<db, nextId, usedUuids, now, issued, updates>>

\* db.delete(application): the session marks the object, the table is not
\* touched yet
delete_mark(h) ==
    /\ AtStatement(h, "delete")
    /\ inflight' = Goto(h, "commit")
    /\ UNCHANGED <<db, files, nextId, usedUuids, now, resp, issued, updates>>

\* what db.commit() answers when its DELETE matches no row: the session
\* raises StaleDataError (500) or only warns (200)
CommitOfMissingRow(stale_raises) == IF stale_raises THEN 500 ELSE 200

\* db.commit(); db.close(); return
delete_commit(h, stale_raises) ==
    /\ AtStatement(h, "commit")
    /\ IF inflight[h].id \in DOMAIN db
       THEN /\ db' = DeleteRow(db, inflight[h].id)
            /\ Answer(h, 200, "Application deleted successfully")
       ELSE /\ Answer(h, CommitOfMissingRow(stale_raises),
                      IF stale_raises THEN "StaleDataError"
                      ELSE "Application deleted successfully")
            /\ UNCHANGED db
    /\ UNCHANGED <<files, nextId, usedUuids, now, issued, updates>>

-----------------------------------------------------------------------------
(* Concurrent deletes: records are created, Delete calls arrive and their   *)
(* statements interleave                                                    *)

NextDelete ==
    \/ \E c \in StoreCreates :
          /\ Cardinality(usedUuids) < MaxCreates
          /\ create_application(c[1], c[2], c[3], FreshUuid, "none")
    \/ \E id \in Ids : delete_start(id)
    \/ \E h \in DOMAIN inflight : delete_query(h)
    \/ \E h \in DOMAIN inflight : delete_resume_exists(h)
    \/ \E h \in DOMAIN inflight : delete_resume_remove(h)
    \/ \E h \in DOMAIN inflight : delete_cover_letter_exists(h)
    \/ \E h \in DOMAIN inflight : delete_cover_letter_remove(h)
    \/ \E h \in DOMAIN inflight : delete_mark(h)
    \/ \E h \in DOMAIN inflight, stale_raises \in BOOLEAN : delete_commit(h, stale_raises)

SpecDelete == Init /\ [][NextDelete]_vars

-----------------------------------------------------------------------------
(* Claims on concurrent deletes *)

\* two Delete calls of the same id, both arrived while the record was
\* stored, have both been answered
BothAnswered(h1, h2) ==
    /\ h1 # h2
    /\ inflight[h1].id = inflight[h2].id
    /\ inflight[h1].stored_at_start
    /\ inflight[h2].stored_at_start
    /\ inflight[h1].pc = "done"
    /\ inflight[h2].pc = "done"

\* C15: of two Delete calls of the same stored id whose statements
\* interleave, one answers 200 and the other 404, none answers 500, and
\* afterwards the row and its files are gone.
C15_ConcurrentDeletes ==
    \A h1, h2 \in DOMAIN inflight :
        BothAnswered(h1, h2) =>
            /\ {inflight[h1].code, inflight[h2].code} = {200, 404}
            /\ inflight[h1].id \notin DOMAIN db
            /\ \A h \in {h1, h2} :
                    inflight[h].application # None =>
                        StoredPaths(Val(inflight[h].application)) \cap DOMAIN files = {}

====
